---- MODULE Spec2Model ----
(***************************************************************************)
(* EarlyAllocator<PAGE_SIZE> of arceos/modules/bump_allocator/src/lib.rs:  *)
(* a double-ended bump allocator.  Bytes are allocated forward from b_pos, *)
(* pages backward from p_pos.  All fields are usize; the model keeps the   *)
(* machine width (Word = 2^WordBits) because the code's additions,         *)
(* subtractions and multiplications are unguarded.  An overflowing usize   *)
(* operation panics in a build with overflow checks (cargo's dev profile)  *)
(* and wraps in a build without them (release profile); the build is       *)
(* chosen once, in the initial state, together with the width of usize     *)
(* and the PAGE_SIZE parameter of the instance.                            *)
(***************************************************************************)
EXTENDS Integers, Sequences, FiniteSets

\* ---------------------------------------------------------------- bounds
WordBits == 4
PAGE_SIZE == 4
\* byte allocations outstanding at once (b_count counts calls; 2^64 calls
\* do not happen, so the count never walks through the whole word)
MaxCount == 2
\* frees made while the count is already zero
MaxUnder == 1
\* allocations remembered in one allocate-then-free episode
MaxEp == 2
\* successful page allocations since the last init
MaxPageAllocs == 1
\* successful byte allocations since b_pos was last set to base
MaxHanded == 2

VARIABLES
    base, size, b_pos, p_pos, b_count,  \* the fields of EarlyAllocator
    overflow_checks,                    \* the build: TRUE panics on overflow, FALSE wraps
    word,                               \* the target: 2^usize::BITS
    page_size,                          \* the instance: its const parameter PAGE_SIZE
    inited,                             \* init has been called
    op, args, ret,                      \* the last call, the arguments it reads, its result
    ep,                                 \* history: the current allocate-then-free episode
    live,                               \* history: <<address, size>> of the byte allocations
                                        \*   the caller holds, while its use is well-formed
    wf,                                 \* history: since init every dealloc was of a held address
    pages,                              \* history: <<address, num_pages>> returned since init
    top,                                \* history: highest end of a byte range handed out
                                        \*   since b_pos was last set to base
    handed                              \* history: how many were handed out since then

fields == <<base, size, b_pos, p_pos, b_count>>
build == <<overflow_checks, word, page_size>>
hist == <<ep, live, wf, pages, top, handed>>
vars == <<base, size, b_pos, p_pos, b_count, overflow_checks, word, page_size,
          inited, op, args, ret, ep, live, wf, pages, top, handed>>

Word == word
\* core::alloc::Layout keeps size <= isize::MAX
IsizeMax == (Word \div 2) - 1

\* ---------------------------------------------------------------- inputs
InitStarts == {0, PAGE_SIZE, Word \div 2, Word - PAGE_SIZE}
InitSizes == {0, PAGE_SIZE + 2, 2 * PAGE_SIZE}
LayoutSizes == {0, 1, PAGE_SIZE, IsizeMax}
LayoutAligns == {1, 2 * PAGE_SIZE}
NumPages == {0, 1, 2, 3, (Word \div PAGE_SIZE) + 1}
AlignPow2s == {PAGE_SIZE, 2 * PAGE_SIZE}
\* arguments of the calls that ignore them
AddMemoryArgs == {<<0, 0>>, <<Word \div 2, PAGE_SIZE>>}
DeallocPagesArgs == {<<PAGE_SIZE, 1>>, <<Word - PAGE_SIZE, 2>>}

\* ---------------------------------------------------------------- results
Unit == [kind |-> "Unit", val |-> 0]
Ok(v) == [kind |-> "Ok", val |-> v]
NoMemory == [kind |-> "NoMemory", val |-> 0]
Panic == [kind |-> "Panic", val |-> 0]

\* usize arithmetic of a build without overflow checks
Wrap(x) == ((x % Word) + Word) % Word

NoEpisode == [phase |-> "none", addrs |-> <<>>]

Range(s) == {s[i] : i \in 1..Len(s)}

\* ---------------------------------------------------------------- new
new ==
    /\ base = 0
    /\ size = 0
    /\ b_pos = 0
    /\ p_pos = 0
    /\ b_count = 0

Init ==
    /\ new
    /\ overflow_checks \in BOOLEAN
    /\ word = 2 ^ WordBits
    /\ page_size = PAGE_SIZE
    /\ inited = FALSE
    /\ op = "new"
    /\ args = <<>>
    /\ ret = Unit
    /\ ep = NoEpisode
    /\ live = <<>>
    /\ wf = FALSE
    /\ pages = <<>>
    /\ top = 0
    /\ handed = 0

\* a panic ends the program (no_std kernel: panic = abort)
Running == ret.kind # "Panic"

\* ---------------------------------------------------------------- init
\* `start + size` (line 44)
init_overflows(start, sz) == overflow_checks /\ start + sz >= Word

init_p_pos_no_size(start, sz) == start

init_p_pos(start, sz) == Wrap(start + sz)

init(start, sz) ==
    /\ Running
    /\ op' = "init"
    /\ args' = <<start, sz>>
    /\ ep' = NoEpisode
    /\ live' = <<>>
    /\ pages' = <<>>
    /\ top' = 0
    /\ handed' = 0
    /\ wf' = ~init_overflows(start, sz)
    /\ IF init_overflows(start, sz)
       THEN \* `start + size` panics after base, size and b_pos were stored
            /\ base' = start
            /\ size' = sz
            /\ b_pos' = start
            /\ UNCHANGED <<p_pos, b_count>>
            /\ ret' = Panic
            /\ inited' = inited
       ELSE /\ base' = start
            /\ size' = sz
            /\ b_pos' = start
            /\ p_pos' = init_p_pos(start, sz)
            /\ b_count' = 0
            /\ ret' = Unit
            /\ inited' = TRUE
    /\ UNCHANGED build

\* ---------------------------------------------------------------- add_memory
\* an add_memory that appends the new bytes to the region
add_memory_grows_region(start, sz) ==
    /\ Running
    /\ op' = "add_memory"
    /\ args' = <<>>
    /\ ret' = Ok(0)
    /\ size' = Wrap(size + sz)
    /\ p_pos' = Wrap(p_pos + sz)
    /\ UNCHANGED <<base, b_pos, b_count, build, inited, hist>>

add_memory(start, sz) ==
    /\ Running
    /\ op' = "add_memory"
    /\ args' = <<>>
    /\ ret' = Ok(0)
    /\ UNCHANGED <<fields, build, inited, hist>>

\* ---------------------------------------------------------------- history
\* The episode of the "collective reclamation" scenario: starting with
\* b_count = 0 in an initialized allocator, the addresses returned by the
\* successful allocs so far (phase "allocs"), then the ones not yet handed
\* back to dealloc (phase "frees"); "done" once each was handed back once.
RECURSIVE RemoveFirst(_, _)
RemoveFirst(s, a) ==
    IF s = <<>> THEN <<>>
    ELSE IF Head(s) = a THEN Tail(s)
    ELSE <<Head(s)>> \o RemoveFirst(Tail(s), a)

EpAlloc(r) ==
    IF r.kind = "NoMemory" THEN ep
    ELSE IF r.kind # "Ok" THEN NoEpisode
    ELSE IF ep.phase = "allocs" /\ Len(ep.addrs) < MaxEp
         THEN [phase |-> "allocs", addrs |-> Append(ep.addrs, r.val)]
    ELSE IF ep.phase # "allocs" /\ inited /\ b_count = 0
         THEN [phase |-> "allocs", addrs |-> <<r.val>>]
    ELSE NoEpisode

EpDealloc(a, r) ==
    IF r.kind # "Unit" THEN NoEpisode
    ELSE IF ep.phase \in {"allocs", "frees"} /\ a \in Range(ep.addrs)
         THEN LET rest == RemoveFirst(ep.addrs, a)
              IN  [phase |-> IF rest = <<>> THEN "done" ELSE "frees", addrs |-> rest]
    ELSE NoEpisode

\* The byte allocations the caller holds.  Its use is well-formed as long
\* as every address it hands to dealloc is one it holds.
LiveAddrs == {live[i][1] : i \in 1..Len(live)}

RECURSIVE RemoveFirstAt(_, _)
RemoveFirstAt(s, a) ==
    IF s = <<>> THEN <<>>
    ELSE IF Head(s)[1] = a THEN Tail(s)
    ELSE <<Head(s)>> \o RemoveFirstAt(Tail(s), a)

LiveAlloc(r, layout_size) ==
    IF wf /\ r.kind = "Ok" THEN Append(live, <<r.val, layout_size>>) ELSE live

Max(a, b) == IF a >= b THEN a ELSE b

\* ---------------------------------------------------------------- alloc
\* NonNull::new_unchecked(addr): undefined behaviour for addr = 0; a build
\* with debug assertions aborts on the violated precondition, another
\* hands the null pointer out.
NonNull_new_unchecked(addr) ==
    IF addr # 0 THEN {Ok(addr)} ELSE {Ok(0), Panic}

\* `self.b_pos + size` (line 56)
alloc_overflows(layout_size) == overflow_checks /\ b_pos + layout_size >= Word

alloc_pos(layout_size) == Wrap(b_pos + layout_size)

\* `pos > self.p_pos` (line 57)
alloc_no_memory(layout_size) == alloc_pos(layout_size) > p_pos

alloc(layout_size, layout_align) ==
    /\ Running
    /\ \/ b_count < MaxCount
       \/ b_count >= Word - MaxUnder
       \/ alloc_overflows(layout_size)
       \/ alloc_no_memory(layout_size)
    /\ \/ handed < MaxHanded
       \/ alloc_overflows(layout_size)
       \/ alloc_no_memory(layout_size)
    /\ op' = "alloc"
    /\ args' = <<layout_size>>
    /\ IF alloc_overflows(layout_size)
       THEN \* `self.b_pos + size` panics
            /\ ret' = Panic
            /\ UNCHANGED fields
       ELSE IF alloc_no_memory(layout_size)
       THEN /\ ret' = NoMemory
            /\ UNCHANGED fields
       ELSE IF overflow_checks /\ b_count + 1 >= Word
       THEN \* `self.b_count += 1` panics after b_pos was stored
            /\ b_pos' = alloc_pos(layout_size)
            /\ ret' = Panic
            /\ UNCHANGED <<base, size, p_pos, b_count>>
       ELSE /\ b_pos' = alloc_pos(layout_size)
            /\ b_count' = Wrap(b_count + 1)
            /\ ret' \in NonNull_new_unchecked(b_pos)
            /\ UNCHANGED <<base, size, p_pos>>
    /\ ep' = EpAlloc(ret')
    /\ live' = LiveAlloc(ret', layout_size)
    /\ top' = IF ret'.kind = "Ok" THEN Max(top, b_pos + layout_size) ELSE top
    /\ handed' = IF ret'.kind = "Ok" THEN handed + 1 ELSE handed
    /\ UNCHANGED <<build, inited, wf, pages>>

\* ---------------------------------------------------------------- dealloc
\* addresses a caller hands to dealloc: NonNull values across the address
\* space, and whatever alloc returned in the current episode
FreeAddrs ==
    {1, PAGE_SIZE + 1, Word - 1} \cup Range(ep.addrs) \cup LiveAddrs

\* a dealloc that never ignores an address
dealloc_ignored_never(pos) == FALSE

\* `pos > self.b_pos` (line 68)
dealloc_ignored(pos) == pos > b_pos

dealloc(pos) ==
    /\ Running
    /\ b_count <= MaxCount \/ b_count > Word - MaxUnder \/ dealloc_ignored(pos)
    /\ op' = "dealloc"
    /\ args' = <<pos>>
    /\ IF dealloc_ignored(pos)
       THEN /\ ret' = Unit
            /\ UNCHANGED fields
       ELSE IF overflow_checks /\ b_count = 0
       THEN \* `self.b_count -= 1` panics
            /\ ret' = Panic
            /\ UNCHANGED fields
       ELSE /\ b_count' = Wrap(b_count - 1)
            /\ b_pos' = IF b_count' = 0 THEN base ELSE b_pos
            /\ ret' = Unit
            /\ UNCHANGED <<base, size, p_pos>>
    /\ ep' = EpDealloc(pos, ret')
    /\ wf' = (wf /\ pos \in LiveAddrs)
    /\ live' = IF wf' THEN RemoveFirstAt(live, pos) ELSE <<>>
    /\ top' = IF b_count' = 0 /\ b_count # 0 THEN 0 ELSE top
    /\ handed' = IF b_count' = 0 /\ b_count # 0 THEN 0 ELSE handed
    /\ UNCHANGED <<build, inited, pages>>

\* ---------------------------------------------------------------- alloc_pages
\* `self.p_pos - num_pages * Self::PAGE_SIZE` (line 94)
alloc_pages_overflows(num_pages) ==
    overflow_checks /\ (num_pages * page_size >= Word \/ num_pages * page_size > p_pos)

alloc_pages_pos_no_page_size(num_pages) == Wrap(p_pos - num_pages)

alloc_pages_pos(num_pages) == Wrap(p_pos - Wrap(num_pages * page_size))

\* `pos < self.b_pos` (line 95)
alloc_pages_no_memory(num_pages) == alloc_pages_pos(num_pages) < b_pos

alloc_pages(num_pages, align_pow2) ==
    /\ Running
    /\ \/ Len(pages) < MaxPageAllocs
       \/ alloc_pages_overflows(num_pages)
       \/ alloc_pages_no_memory(num_pages)
    /\ op' = "alloc_pages"
    /\ args' = <<num_pages>>
    /\ IF alloc_pages_overflows(num_pages)
       THEN \* the multiplication or the subtraction panics
            /\ ret' = Panic
            /\ UNCHANGED fields
       ELSE IF alloc_pages_no_memory(num_pages)
       THEN /\ ret' = NoMemory
            /\ UNCHANGED fields
       ELSE /\ p_pos' = alloc_pages_pos(num_pages)
            /\ ret' = Ok(alloc_pages_pos(num_pages))
            /\ UNCHANGED <<base, size, b_pos, b_count>>
    /\ pages' = IF ret'.kind = "Ok"
                THEN Append(pages, <<ret'.val, num_pages>>)
                ELSE pages
    /\ UNCHANGED <<build, inited, ep, live, wf, top, handed>>

\* ---------------------------------------------------------------- dealloc_pages
\* a dealloc_pages that hands the pages back to the pool
dealloc_pages_returns_pages(pos, num_pages) ==
    /\ Running
    /\ op' = "dealloc_pages"
    /\ args' = <<>>
    /\ ret' = Unit
    /\ p_pos' = Wrap(p_pos + num_pages * page_size)
    /\ UNCHANGED <<base, size, b_pos, b_count, build, inited, hist>>

dealloc_pages(pos, num_pages) ==
    /\ Running
    /\ op' = "dealloc_pages"
    /\ args' = <<>>
    /\ ret' = Unit
    /\ UNCHANGED <<fields, build, inited, hist>>

\* ---------------------------------------------------------------- Next
Next ==
    \/ \E start \in InitStarts, sz \in InitSizes : init(start, sz)
    \/ \E a \in AddMemoryArgs : add_memory(a[1], a[2])
    \/ \E s \in LayoutSizes, a \in LayoutAligns : alloc(s, a)
    \/ \E pos \in FreeAddrs : dealloc(pos)
    \/ \E n \in NumPages, a \in AlignPow2s : alloc_pages(n, a)
    \/ \E a \in DeallocPagesArgs : dealloc_pages(a[1], a[2])

Spec == Init /\ [][Next]_vars

\* ---------------------------------------------------------------- example scenario
\* The instance of the spec's example: PAGE_SIZE = 0x100 and a region of
\* 0x1000 bytes at 0x1000, on a 16-bit target; the calls of the example
\* among other calls.
ScenarioInit ==
    /\ new
    /\ overflow_checks \in BOOLEAN
    /\ word = 2 ^ 16
    /\ page_size = 256
    /\ inited = FALSE
    /\ op = "new"
    /\ args = <<>>
    /\ ret = Unit
    /\ ep = NoEpisode
    /\ live = <<>>
    /\ wf = FALSE
    /\ pages = <<>>
    /\ top = 0
    /\ handed = 0

ScenarioInitArgs == {<<4096, 4096>>, <<4096, 512>>}
ScenarioLayoutSizes == {1, 16, 3568}
ScenarioNumPages == {1, 2}
ScenarioFreeAddrs == {4096, 4112, 8191} \cup Range(ep.addrs) \cup LiveAddrs

ScenarioNext ==
    \/ \E a \in ScenarioInitArgs : init(a[1], a[2])
    \/ \E a \in ScenarioInitArgs : add_memory(a[1], a[2])
    \/ \E s \in ScenarioLayoutSizes, a \in LayoutAligns : alloc(s, a)
    \/ \E pos \in ScenarioFreeAddrs : dealloc(pos)
    \/ \E n \in ScenarioNumPages, a \in AlignPow2s : alloc_pages(n, a)
    \/ \E a \in ScenarioInitArgs, n \in ScenarioNumPages : dealloc_pages(a[1], n)

ScenarioSpec == ScenarioInit /\ [][ScenarioNext]_vars

\* ---------------------------------------------------------------- odd page size
\* PAGE_SIZE is a const generic parameter (line 19): an instance whose page
\* size does not divide the word's modulus, under the calls of Next.
OddPageInit ==
    /\ new
    /\ overflow_checks \in BOOLEAN
    /\ word = 2 ^ WordBits
    /\ page_size = PAGE_SIZE - 1
    /\ inited = FALSE
    /\ op = "new"
    /\ args = <<>>
    /\ ret = Unit
    /\ ep = NoEpisode
    /\ live = <<>>
    /\ wf = FALSE
    /\ pages = <<>>
    /\ top = 0
    /\ handed = 0

OddPageSpec == OddPageInit /\ [][Next]_vars

TypeOK ==
    /\ base \in 0..(Word - 1)
    /\ size \in 0..(Word - 1)
    /\ b_pos \in 0..(Word - 1)
    /\ p_pos \in 0..(Word - 1)
    /\ b_count \in 0..(Word - 1)

\* ================================================================ claims

\* C1: once init(start, size) with start + size representable has run,
\* every reachable state has base <= b_pos <= p_pos <= base + size.
C1_CursorOrder ==
    (inited /\ base + size < Word) =>
        (base <= b_pos /\ b_pos <= p_pos /\ p_pos <= base + size)

\* C2: in every reachable state, b_count = 0 implies b_pos = base.
C2_ZeroCountAtBase == (b_count = 0) => (b_pos = base)

\* C3 as stated: after init(start, size), for any arguments and from any
\* state, base = start, size = size, b_pos = start, p_pos = start + size
\* and b_count = 0.
C3_InitSetsAll ==
    (op = "init") =>
        /\ base = args[1]
        /\ size = args[2]
        /\ b_pos = args[1]
        /\ p_pos = args[1] + args[2]
        /\ b_count = 0

\* C3 amended: when start + size is representable in usize, init(start,
\* size) returns normally from any state, whatever was allocated before,
\* with base = start, size = size, b_pos = start, p_pos = start + size and
\* b_count = 0.
C3_InitSetsAllRepresentable ==
    (op = "init" /\ args[1] + args[2] < Word) =>
        /\ ret = Unit
        /\ inited
        /\ base = args[1]
        /\ size = args[2]
        /\ b_pos = args[1]
        /\ p_pos = args[1] + args[2]
        /\ b_count = 0

\* C3 witness: an init of a non-empty region that does not start at 0 has
\* returned.
C3_Witness ==
    /\ op = "init"
    /\ ret = Unit
    /\ args[1] > 0
    /\ args[2] > 0
    /\ args[1] + args[2] < Word
    /\ p_pos = base + size

\* C4: in an initialized allocator, alloc(size, align) fails with NoMemory
\* exactly when b_pos + size > p_pos (as integers), and a failing call
\* changes no field.
C4_AllocExhaustedIff ==
    [][(op' = "alloc" /\ inited) =>
          /\ (ret'.kind = "NoMemory") <=> (b_pos + args'[1] > p_pos)
          /\ (ret'.kind = "NoMemory") => UNCHANGED fields]_vars

\* C5: in an initialized allocator a successful alloc returns the b_pos of
\* before the call, moves b_pos up by the requested size (strictly, for a
\* request of at least one byte), adds one to b_count and leaves p_pos,
\* base and size alone.
C5_AllocBumpsForward ==
    [][(op' = "alloc" /\ inited /\ ret'.kind = "Ok") =>
          /\ ret'.val = b_pos
          /\ b_pos' = b_pos + args'[1]
          /\ (args'[1] > 0) => (b_pos' > b_pos)
          /\ b_count' = b_count + 1
          /\ UNCHANGED <<p_pos, base, size>>]_vars

\* C6: in an initialized allocator, alloc_pages(n, align_pow2) fails with
\* NoMemory exactly when p_pos - n * PAGE_SIZE < b_pos (as integers), and a
\* failing call changes no field.
C6_AllocPagesExhaustedIff ==
    [][(op' = "alloc_pages" /\ inited) =>
          /\ (ret'.kind = "NoMemory") <=> (p_pos - args'[1] * page_size < b_pos)
          /\ (ret'.kind = "NoMemory") => UNCHANGED fields]_vars

\* C7: in an initialized allocator a successful alloc_pages(n, _) lowers
\* p_pos by exactly n * PAGE_SIZE, returns the new p_pos and leaves b_pos,
\* b_count, base and size alone.
C7_AllocPagesBumpsBackward ==
    [][(op' = "alloc_pages" /\ inited /\ ret'.kind = "Ok") =>
          /\ p_pos' = p_pos - args'[1] * page_size
          /\ ret'.val = p_pos'
          /\ UNCHANGED <<b_pos, b_count, base, size>>]_vars

\* C8: in an initialized allocator no call other than init ever raises
\* p_pos.
C8_PagePosNeverRises ==
    [][(inited /\ op' # "init") => (p_pos' <= p_pos)]_vars

\* C9: when k >= 1 successful allocs, made from an initialized state with
\* b_count = 0, have been followed by k deallocs of the k returned
\* addresses (page calls in between allowed), then b_count = 0, b_pos =
\* base, and an alloc of the whole byte capacity p_pos - base (where that
\* is a size a Layout can carry) would succeed.
C9_CollectiveReclamation ==
    (op = "dealloc" /\ ep.phase = "done") =>
        /\ b_count = 0
        /\ b_pos = base
        /\ (base <= p_pos /\ p_pos - base <= IsizeMax) =>
              (~alloc_overflows(p_pos - base) /\ ~alloc_no_memory(p_pos - base))

\* C10: dealloc_pages changes no field, whatever its arguments and the
\* state; so every alloc_pages request that would fail with NoMemory before
\* the call would still fail after it.
C10_DeallocPagesNoEffect ==
    [][(op' = "dealloc_pages") =>
          /\ UNCHANGED fields
          /\ ret' = Unit
          /\ \A n \in NumPages :
                (~alloc_pages_overflows(n) /\ alloc_pages_no_memory(n)) =>
                    (~alloc_pages_overflows(n) /\ alloc_pages_no_memory(n))']_vars

\* C10 witness: dealloc_pages has returned in an initialized allocator
\* whose pages were partly handed out and where a request for one more
\* page fails with NoMemory.
C10_Witness ==
    /\ op = "dealloc_pages"
    /\ inited
    /\ p_pos < base + size
    /\ p_pos >= page_size
    /\ ~alloc_pages_overflows(1)
    /\ alloc_pages_no_memory(1)

\* C11: dealloc(address, layout) with address > b_pos returns normally and
\* changes no field.
C11_DeallocAboveCursorIgnored ==
    [][(op' = "dealloc" /\ args'[1] > b_pos) =>
          /\ ret' = Unit
          /\ UNCHANGED fields]_vars

\* C11 witness: in an initialized allocator with allocations outstanding,
\* a dealloc of an address above b_pos has returned.
C11_Witness ==
    /\ op = "dealloc"
    /\ inited
    /\ ret = Unit
    /\ args[1] > b_pos
    /\ b_count > 0
    /\ b_pos > base

\* C12: a dealloc never panics and never takes b_count below zero: it
\* leaves b_count as it was or takes exactly one off it, also when called
\* with address <= b_pos while b_count = 0.
C12_DeallocNeverFails ==
    [][(op' = "dealloc") =>
          /\ ret' = Unit
          /\ b_count' = b_count \/ b_count' = b_count - 1]_vars

\* C13: an alloc whose b_pos + size overflows the word, and an alloc_pages
\* whose num_pages * PAGE_SIZE overflows the word or exceeds p_pos, fail
\* with NoMemory and change no field.
C13_OverflowIsExhausted ==
    [][(\/ op' = "alloc" /\ b_pos + args'[1] >= Word
        \/ op' = "alloc_pages" /\ args'[1] * page_size >= Word
        \/ op' = "alloc_pages" /\ args'[1] * page_size > p_pos) =>
          /\ ret' = NoMemory
          /\ UNCHANGED fields]_vars

\* C14: every address a successful alloc returns is non-zero, in every
\* reachable state (never initialized, or initialized with start = 0,
\* included).
C14_AllocReturnsNonNull ==
    (op = "alloc" /\ ret.kind = "Ok") => (ret.val # 0)

\* C15: add_memory(start, size) returns Ok and changes no field, whatever
\* its arguments and the state.
C15_AddMemoryNoEffect ==
    [][(op' = "add_memory") =>
          /\ ret' = Ok(0)
          /\ UNCHANGED fields]_vars

\* C15 witness: add_memory has returned Ok in an initialized allocator
\* with allocations outstanding.
C15_Witness ==
    /\ op = "add_memory"
    /\ ret.kind = "Ok"
    /\ inited
    /\ b_count > 0
    /\ b_pos > base

\* C16: with PAGE_SIZE = 0x100, after init(0x1000, 0x1000): alloc(0x10)
\* returns 0x1000 and leaves b_pos = 0x1010; then alloc_pages(2) returns
\* 0x1E00 and leaves p_pos = 0x1E00; then alloc(0xDF0) succeeds and leaves
\* b_pos = 0x1E00; then an alloc of one byte fails with NoMemory.  Each
\* call is taken from the field values the call before it leaves.
C16_ExampleScenario ==
    [][/\ (op' = "init" /\ args' = <<4096, 4096>>) =>
             fields' = <<4096, 4096, 4096, 8192, 0>>
       /\ (fields = <<4096, 4096, 4096, 8192, 0>> /\ op' = "alloc" /\ args' = <<16>>) =>
             (ret' = Ok(4096) /\ fields' = <<4096, 4096, 4112, 8192, 1>>)
       /\ (fields = <<4096, 4096, 4112, 8192, 1>> /\ op' = "alloc_pages" /\ args' = <<2>>) =>
             (ret' = Ok(7680) /\ fields' = <<4096, 4096, 4112, 7680, 1>>)
       /\ (fields = <<4096, 4096, 4112, 7680, 1>> /\ op' = "alloc" /\ args' = <<3568>>) =>
             (ret' = Ok(4112) /\ fields' = <<4096, 4096, 7680, 7680, 2>>)
       /\ (fields = <<4096, 4096, 7680, 7680, 2>> /\ op' = "alloc" /\ args' = <<1>>) =>
             (ret' = NoMemory /\ UNCHANGED fields)]_vars

\* C16 witness: the last call of the example has failed, after allocs that
\* returned 0x1000 and 0x1010 and with the two pages taken.
C16_Witness ==
    /\ page_size = 256
    /\ fields = <<4096, 4096, 7680, 7680, 2>>
    /\ ep = [phase |-> "allocs", addrs |-> <<4096, 4112>>]
    /\ op = "alloc"
    /\ args = <<1>>
    /\ ret = NoMemory

\* C17: no partial reclamation.  A dealloc of an address <= b_pos that
\* leaves b_count > 0 leaves b_pos unchanged; and a successful alloc made
\* while ranges handed out since the last reset exist returns an address at
\* or above the end of every one of them, so it reuses none of their bytes.
C17_NoPartialReclamation ==
    [][/\ (op' = "dealloc" /\ args'[1] <= b_pos /\ ret' = Unit /\ b_count' > 0) =>
             b_pos' = b_pos
       /\ (op' = "alloc" /\ ret'.kind = "Ok" /\ handed > 0) =>
             ret'.val >= top]_vars

\* two address ranges [a, a + s) and [b, b + t) share no byte
Disjoint(a, s, b, t) == s = 0 \/ t = 0 \/ a + s <= b \/ b + t <= a

\* C18: under well-formed use after an init of a representable region
\* (every dealloc is given an address alloc returned and that was not
\* freed since), b_count is the number of live byte allocations, and the
\* live ranges [addr, addr + size) are pairwise disjoint and lie in
\* [base, b_pos).
C18_WellFormedLiveRanges ==
    (inited /\ wf /\ Running /\ base + size < Word) =>
        /\ b_count = Len(live)
        /\ \A i \in 1..Len(live) :
              /\ base <= live[i][1]
              /\ live[i][1] + live[i][2] <= b_pos
        /\ \A i \in 1..Len(live) : \A j \in 1..Len(live) :
              i < j => Disjoint(live[i][1], live[i][2], live[j][1], live[j][2])

\* C19: after an init of a representable region and until the next init,
\* every range [a, a + n * PAGE_SIZE) a successful alloc_pages returned
\* lies in [p_pos, base + size), these page ranges are pairwise disjoint,
\* and every byte range the caller holds lies in [base, p_pos), so no page
\* range overlaps it.
C19_PageRangesInsideRegion ==
    (inited /\ Running /\ base + size < Word) =>
        /\ \A i \in 1..Len(pages) :
              /\ p_pos <= pages[i][1]
              /\ pages[i][1] + pages[i][2] * page_size <= base + size
        /\ \A i \in 1..Len(pages) : \A j \in 1..Len(pages) :
              i < j => Disjoint(pages[i][1], pages[i][2] * page_size,
                                pages[j][1], pages[j][2] * page_size)
        /\ \A i \in 1..Len(live) :
              /\ base <= live[i][1]
              /\ live[i][1] + live[i][2] <= p_pos

\* C20: once init has run with start + size representable and a multiple of
\* PAGE_SIZE, p_pos is a multiple of PAGE_SIZE in every state, and so is
\* every address a successful alloc_pages returns, whatever align_pow2 and
\* whatever byte allocations and frees come in between.
C20_PagePosPageAligned ==
    (inited /\ Running /\ base + size < Word /\ (base + size) % page_size = 0) =>
        /\ p_pos % page_size = 0
        /\ (op = "alloc_pages" /\ ret.kind = "Ok") => ret.val % page_size = 0

====
